---- MODULE Spec2Model ----
(***************************************************************************)
(* Model of the rag-juridique retrieval pipeline:                          *)
(*   - PDFExtractor.chunk_text            (src/src/extract_pdf.py)         *)
(*   - EmbeddingManager.create_faiss_index / save_index / load_index       *)
(*                                        (src/src/embeddings.py)          *)
(*   - RAGRetriever.search                (src/src/retrieval.py)           *)
(*                                                                         *)
(* The specifications share the variables:                                 *)
(*   SpecChunk  one call of chunk_text, one loop iteration per step;       *)
(*   Spec       build the index, save it, load it, search it.              *)
(*   SpecBatch  create_embeddings_batch call by call, then build and save. *)
(*   SpecAsk    /ask requests against a loaded retriever, step by step.    *)
(***************************************************************************)
EXTENDS Integers, Sequences, FiniteSets, TLC

VARIABLES
    \* ---- chunk_text(text, chunk_size, overlap) ----
    text,        \* argument: the text, a sequence of characters
    chunk_size,  \* argument
    overlap,     \* argument
    words,       \* local: text.split()
    chunks,      \* local: the list being built
    i,           \* local: the loop variable of range(0, len(words), step)
    pc,          \* position in chunk_text
    raised,      \* exception that left chunk_text, or "none"
    \* ---- build / persist / serve ----
    all_chunks,  \* build side: the chunk sequence handed to save_index
    embeddings,  \* build side: the array returned by create_embeddings_batch
    index,       \* build side: the index returned by create_faiss_index
    build_pc,    \* position of the build script
    disk,        \* the two artifacts index/legal.faiss and index/chunks.pkl
    retriever,   \* serve side: RAGRetriever(index, chunks) or None
    load_error,  \* exception that left the last load_index, or "none"
    out,         \* outcome of the last RAGRetriever.search call
    \* ---- create_embeddings_batch and the /ask request ----
    batch,       \* the running create_embeddings_batch call and the calls it made
    req,         \* the /ask request being served
    \* ---- the API process, clean_text, process_all_pdfs ----
    api,         \* api.py globals embedding_manager and startup_error, and startup's position
    reqs,        \* the requests being served concurrently, one per client
    clean,       \* a clean_text call: its argument, intermediate values and result
    proc         \* a process_all_pdfs call: the directory, its locals and result

chunkVars == <<text, chunk_size, overlap, words, chunks, i, pc, raised>>
indexVars == <<all_chunks, embeddings, index, build_pc, disk, retriever, load_error, out>>
callVars == <<batch, req>>
restVars == <<api, reqs, clean, proc>>
vars == <<text, chunk_size, overlap, words, chunks, i, pc, raised,
          all_chunks, embeddings, index, build_pc, disk, retriever, load_error, out,
          batch, req, api, reqs, clean, proc>>

Min(a, b) == IF a <= b THEN a ELSE b

\* A path with no file behind it, and the value None of the retriever global.
NoFile == [present |-> FALSE]
NoRetriever == [is_none |-> TRUE]

\* No create_embeddings_batch call running, no request being served.
NoBatch == [status |-> "idle"]
NoRequest == [pc |-> "idle"]

\* No API process, no client, no clean_text or process_all_pdfs call.
NoApi == [pc |-> "off"]
NoClean == [pc |-> "off"]
NoProc == [pc |-> "off"]
InitRestIdle ==
    /\ api = NoApi
    /\ reqs = <<>>
    /\ clean = NoClean
    /\ proc = NoProc

(***************************************************************************)
(* Bounds of the model.                                                    *)
(***************************************************************************)
MaxTextLen == 6
MaxW == 4
MaxV == 4
MaxN == 3
MaxK == 4
MaxB == 3
MaxFiles == 3

(***************************************************************************)
(* chunk_text                                                              *)
(***************************************************************************)
Whitespace == {" ", "\n", "\t"}
Letters == {"a", "b"}
Chars == Letters \cup {" ", "\n"}
Texts == UNION {[1..n -> Chars] : n \in 0..MaxTextLen}

\* str.split() with no separator: the maximal runs of non-whitespace characters.
RECURSIVE SplitFrom(_, _, _)
SplitFrom(t, p, cur) ==
    IF p > Len(t)
    THEN IF cur = <<>> THEN <<>> ELSE <<cur>>
    ELSE IF t[p] \in Whitespace
         THEN IF cur = <<>>
              THEN SplitFrom(t, p + 1, <<>>)
              ELSE <<cur>> \o SplitFrom(t, p + 1, <<>>)
         ELSE SplitFrom(t, p + 1, Append(cur, t[p]))

Split(t) == SplitFrom(t, 1, <<>>)

\* " ".join(ws)
RECURSIVE Join(_)
Join(ws) ==
    IF ws = <<>> THEN <<>>
    ELSE IF Len(ws) = 1 THEN ws[1]
    ELSE ws[1] \o <<" ">> \o Join(Tail(ws))

\* s[lo:hi] for lo, hi >= 0 (0-based, hi exclusive, clamped to len(s)).
Slice(s, lo, hi) == SubSeq(s, lo + 1, Min(hi, Len(s)))

\* Mutant of RangeStep: the overlap added instead of subtracted.
RangeStepAdded(cs, ov) == cs + ov

\* Mutant of RangeStep: the overlap ignored.
RangeStepNoOverlap(cs, ov) == cs

\* The step of range(0, len(words), chunk_size - overlap).
RangeStep(cs, ov) == cs - ov

\* Whether range(0, stop, step) still yields the value v.
InRange(v, stop, step) == IF step > 0 THEN v < stop ELSE v > stop

\* Mutant of MakeChunk: end_word not clamped to the number of words.
MakeChunkNoClamp(ws, at, cs, made) ==
    [text       |-> Join(Slice(ws, at, at + cs)),
     chunk_id   |-> Len(made),
     start_word |-> at,
     end_word   |-> at + cs]

\* The dict appended by one loop iteration.
MakeChunk(ws, at, cs, made) ==
    [text       |-> Join(Slice(ws, at, at + cs)),
     chunk_id   |-> Len(made),
     start_word |-> at,
     end_word   |-> Min(at + cs, Len(ws))]

\* The list a returning call of chunk_text builds (lines 103-122).
RECURSIVE ChunkFrom(_, _, _, _, _)
ChunkFrom(ws, cs, ov, at, made) ==
    IF InRange(at, Len(ws), RangeStep(cs, ov))
    THEN ChunkFrom(ws, cs, ov, at + RangeStep(cs, ov),
                   Append(made, MakeChunk(ws, at, cs, made)))
    ELSE made

ChunkText(t, cs, ov) == ChunkFrom(Split(t), cs, ov, 0, <<>>)

InitIndexIdle ==
    /\ all_chunks = <<>>
    /\ embeddings = "None"
    /\ index = "None"
    /\ build_pc = "off"
    /\ disk = [index_path |-> NoFile, chunks_path |-> NoFile]
    /\ retriever = NoRetriever
    /\ load_error = "none"
    /\ out = [status |-> "idle"]

InitChunk ==
    /\ text \in Texts
    /\ chunk_size \in 0..MaxW
    /\ overlap \in 0..MaxV
    /\ words = <<>>
    /\ chunks = <<>>
    /\ i = 0
    /\ pc = "call"
    /\ raised = "none"
    /\ InitIndexIdle
    /\ batch = NoBatch
    /\ req = NoRequest
    /\ InitRestIdle

\* Lines 103-107: split, and create the range (range() rejects a zero step).
ChunkSplit ==
    /\ pc = "call"
    /\ words' = Split(text)
    /\ chunks' = <<>>
    /\ i' = 0
    /\ IF RangeStep(chunk_size, overlap) = 0
       THEN pc' = "raised" /\ raised' = "ValueError"
       ELSE pc' = "loop" /\ raised' = raised
    /\ UNCHANGED <<text, chunk_size, overlap>>
    /\ UNCHANGED indexVars
    /\ UNCHANGED callVars
    /\ UNCHANGED restVars

\* Lines 107-117: one iteration of the loop.
ChunkLoop ==
    /\ pc = "loop"
    /\ InRange(i, Len(words), RangeStep(chunk_size, overlap))
    /\ chunks' = Append(chunks, MakeChunk(words, i, chunk_size, chunks))
    /\ i' = i + RangeStep(chunk_size, overlap)
    /\ UNCHANGED <<text, chunk_size, overlap, words, pc, raised>>
    /\ UNCHANGED indexVars
    /\ UNCHANGED callVars
    /\ UNCHANGED restVars

\* Mutant of ChunkLoopExit: an exhausted range does not end the loop.
ChunkLoopExitStuck ==
    /\ pc = "loop"
    /\ ~InRange(i, Len(words), RangeStep(chunk_size, overlap))
    /\ UNCHANGED vars

\* Line 107: the range is exhausted.
ChunkLoopExit ==
    /\ pc = "loop"
    /\ ~InRange(i, Len(words), RangeStep(chunk_size, overlap))
    /\ pc' = "report"
    /\ UNCHANGED <<text, chunk_size, overlap, words, chunks, i, raised>>
    /\ UNCHANGED indexVars
    /\ UNCHANGED callVars
    /\ UNCHANGED restVars

\* Lines 119-122: the average size divides by len(chunks); then return.
ChunkReport ==
    /\ pc = "report"
    /\ IF Len(chunks) = 0
       THEN pc' = "raised" /\ raised' = "ZeroDivisionError"
       ELSE pc' = "returned" /\ raised' = raised
    /\ UNCHANGED <<text, chunk_size, overlap, words, chunks, i>>
    /\ UNCHANGED indexVars
    /\ UNCHANGED callVars
    /\ UNCHANGED restVars

NextChunk == ChunkSplit \/ ChunkLoop \/ ChunkLoopExit \/ ChunkReport

SpecChunk == InitChunk /\ [][NextChunk]_vars

\* The same call under the interpreter's scheduling: a statement that can
\* run does run.
SpecChunkLive == InitChunk /\ [][NextChunk]_vars /\ WF_vars(NextChunk)

(***************************************************************************)
(* The index: create_faiss_index, save_index, load_index, search.          *)
(*                                                                         *)
(* Embedding vectors are the corners of the unit square.  An IndexFlatL2   *)
(* is [d, ntotal, xb] with xb the stored rows in insertion order.  A chunk *)
(* is a dict, modelled as a function from its keys to their values.        *)
(***************************************************************************)
Vec == {<<0, 0>>, <<0, 1>>, <<1, 0>>, <<1, 1>>}

RECURSIVE SumTo(_, _)
SumTo(f, n) == IF n = 0 THEN 0 ELSE f[n] + SumTo(f, n - 1)

\* The cleaned text of a corpus file of m words: "a b a b ...".
FileText(m) == Join([n \in 1..m |-> IF n % 2 = 1 THEN <<"a">> ELSE <<"b">>])

\* One file's chunks as process_all_pdfs adds them: chunk_text, then the
\* source set on each chunk.  The corpus is chunked with window 2, overlap 1.
FileChunks(file, m) ==
    LET made == ChunkText(FileText(m), 2, 1)
    IN  [r \in 1..Len(made) |-> [source |-> file] @@ made[r]]

\* The chunk sequence process_all_pdfs returns for a corpus of n chunks: the
\* chunks of a.pdf, then those of b.txt (no file when n = 0).
FirstFileChunks(n) == (n + 1) \div 2
CorpusChunks(n) ==
    FileChunks("a.pdf", FirstFileChunks(n)) \o FileChunks("b.txt", n - FirstFileChunks(n))

\* np.array(list_of_vectors): shape (n, d); for the empty list, shape (0,).
NpArray(rows) ==
    IF rows = <<>> THEN [shape |-> <<0>>, rows |-> <<>>]
    ELSE [shape |-> <<Len(rows), Len(rows[1])>>, rows |-> rows]

\* faiss.IndexFlatL2(dimension) followed by index.add(embeddings).
IndexFlatL2(dimension, arr) ==
    [d |-> dimension, ntotal |-> Len(arr.rows), xb |-> arr.rows]

\* Squared Euclidean distance, the metric of IndexFlatL2.
L2Sqr(x, y) == SumTo([c \in 1..Len(x) |-> (x[c] - y[c]) * (x[c] - y[c])], Len(x))

\* The distance faiss reports in a result slot it could not fill (FLT_MAX):
\* larger than every distance between two vectors of Vec.
PadDistance ==
    LET ds == {L2Sqr(x, y) : x \in Vec, y \in Vec}
    IN  (CHOOSE m \in ds : \A d \in ds : d <= m) + 1

\* Mutant of Before: the farthest row first.
BeforeFarthest(xb, q, r, s) ==
    \/ L2Sqr(xb[r], q) > L2Sqr(xb[s], q)
    \/ L2Sqr(xb[r], q) = L2Sqr(xb[s], q) /\ r <= s

\* Row r is listed no later than row s: nearer first, the lower row on a tie.
Before(xb, q, r, s) ==
    \/ L2Sqr(xb[r], q) < L2Sqr(xb[s], q)
    \/ L2Sqr(xb[r], q) = L2Sqr(xb[s], q) /\ r <= s

RECURSIVE NearestOrder(_, _, _)
NearestOrder(xb, q, rows) ==
    IF rows = {} THEN <<>>
    ELSE LET best == CHOOSE r \in rows : \A s \in rows : Before(xb, q, r, s)
         IN  <<best>> \o NearestOrder(xb, q, rows \ {best})

\* index.search(query_embedding, k) for one query: the arrays D[0] and I[0],
\* both of length k; slots beyond ntotal hold label -1 and the pad distance.
IndexSearch(ix, q, k) ==
    LET order == NearestOrder(ix.xb, q, 1..ix.ntotal)
    IN  [I |-> [j \in 1..k |-> IF j <= ix.ntotal THEN order[j] - 1 ELSE -1],
         D |-> [j \in 1..k |-> IF j <= ix.ntotal
                               THEN L2Sqr(ix.xb[order[j]], q)
                               ELSE PadDistance]]

\* lst[idx] of a Python list: negative indices count from the end.
ListIndexOk(lst, idx) == -Len(lst) <= idx /\ idx < Len(lst)
ListGet(lst, idx) == IF idx >= 0 THEN lst[idx + 1] ELSE lst[Len(lst) + idx + 1]

\* Mutant of ResultEntry: ranks counted from 0.
ResultEntryRankFromZero(chunk, distance, pos) ==
    [distance |-> distance, rank |-> pos - 1] @@ chunk

\* chunk.copy() with the keys 'distance' and 'rank' set (pos counts from 1).
ResultEntry(chunk, distance, pos) ==
    [distance |-> distance, rank |-> pos] @@ chunk

\* Lines 103-116 of RAGRetriever.search, given the query embedding q.
SearchOutcome(r, q, k) ==
    LET res == IndexSearch(r.index, q, k)
    IN  IF \E j \in 1..k : ~ListIndexOk(r.chunks, res.I[j])
        THEN [status |-> "raised", error |-> "IndexError", k |-> k,
              query_embedding |-> q, I |-> res.I, D |-> res.D]
        ELSE [status |-> "returned", error |-> "none", k |-> k,
              query_embedding |-> q, I |-> res.I, D |-> res.D,
              results |-> [j \in 1..k |->
                  ResultEntry(ListGet(r.chunks, res.I[j]), res.D[j], j)]]

(***************************************************************************)
(* Persistence: faiss.write_index / read_index and pickle.dump / load.     *)
(***************************************************************************)
\* Mutant of WriteIndex: the rows written in reverse order.
WriteIndexReversed(ix) ==
    [fourcc |-> "IxF2", d |-> ix.d, ntotal |-> ix.ntotal,
     codes  |-> [p \in 1..(ix.ntotal * ix.d) |->
                    ix.xb[ix.ntotal - ((p - 1) \div ix.d)][((p - 1) % ix.d) + 1]]]

\* The file written for a flat index: header, then the rows back to back.
WriteIndex(ix) ==
    [fourcc |-> "IxF2", d |-> ix.d, ntotal |-> ix.ntotal,
     codes  |-> [p \in 1..(ix.ntotal * ix.d) |->
                    ix.xb[((p - 1) \div ix.d) + 1][((p - 1) % ix.d) + 1]]]

ReadIndex(file) ==
    [d |-> file.d, ntotal |-> file.ntotal,
     xb |-> [r \in 1..file.ntotal |->
                [c \in 1..file.d |-> file.codes[(r - 1) * file.d + c]]]]

\* A dict is pickled as its items in insertion order, a list as its elements.
ChunkKeys == <<"text", "chunk_id", "start_word", "end_word", "source">>
DictItems(c) == [n \in 1..Len(ChunkKeys) |-> <<ChunkKeys[n], c[ChunkKeys[n]]>>]
PickleDump(lst) == [r \in 1..Len(lst) |-> DictItems(lst[r])]

DictFromItems(items) ==
    [key \in {items[n][1] : n \in 1..Len(items)} |->
        items[CHOOSE n \in 1..Len(items) : items[n][1] = key][2]]
PickleLoad(file) == [r \in 1..Len(file) |-> DictFromItems(file[r])]

(***************************************************************************)
(* The build script (embeddings.py __main__) and the serving side.         *)
(***************************************************************************)
InitChunkIdle ==
    /\ text = <<>>
    /\ chunk_size = 0
    /\ overlap = 0
    /\ words = <<>>
    /\ chunks = <<>>
    /\ i = 0
    /\ pc = "off"
    /\ raised = "none"

\* The state after process_all_pdfs returned (line 231).
Init ==
    /\ \E n \in 0..MaxN : all_chunks = CorpusChunks(n)
    /\ embeddings = "None"
    /\ index = "None"
    /\ build_pc = "collected"
    /\ disk = [index_path |-> NoFile, chunks_path |-> NoFile]
    /\ retriever = NoRetriever
    /\ load_error = "none"
    /\ out = [status |-> "idle"]
    /\ InitChunkIdle
    /\ batch = NoBatch
    /\ req = NoRequest
    /\ InitRestIdle

\* Lines 233-235: nothing to index.
BuildExitNoChunks ==
    /\ build_pc = "collected"
    /\ all_chunks = <<>>
    /\ build_pc' = "exited"
    /\ UNCHANGED <<all_chunks, embeddings, index, disk, retriever, load_error, out>>
    /\ UNCHANGED chunkVars
    /\ UNCHANGED callVars
    /\ UNCHANGED restVars

\* Lines 238-240: one vector per chunk text, as returned by the service.
CreateEmbeddings ==
    /\ build_pc = "collected"
    /\ all_chunks # <<>>
    /\ \E rows \in [1..Len(all_chunks) -> Vec] : embeddings' = NpArray(rows)
    /\ build_pc' = "embedded"
    /\ UNCHANGED <<all_chunks, index, disk, retriever, load_error, out>>
    /\ UNCHANGED chunkVars
    /\ UNCHANGED callVars
    /\ UNCHANGED restVars

\* create_faiss_index (lines 138-152): embeddings.shape[1] needs a 2-d array.
CreateFaissIndex ==
    /\ build_pc = "embedded"
    /\ IF Len(embeddings.shape) < 2
       THEN build_pc' = "raised" /\ index' = index
       ELSE /\ index' = IndexFlatL2(embeddings.shape[2], embeddings)
            /\ build_pc' = "indexed"
    /\ UNCHANGED <<all_chunks, embeddings, disk, retriever, load_error, out>>
    /\ UNCHANGED chunkVars
    /\ UNCHANGED callVars
    /\ UNCHANGED restVars

\* save_index (lines 171-185): the vector artifact, then the chunk artifact.
SaveIndex ==
    /\ build_pc = "indexed"
    /\ disk' = [index_path  |-> [present |-> TRUE, data |-> WriteIndex(index)],
                chunks_path |-> [present |-> TRUE, data |-> PickleDump(all_chunks)]]
    /\ build_pc' = "saved"
    /\ UNCHANGED <<all_chunks, embeddings, index, retriever, load_error, out>>
    /\ UNCHANGED chunkVars
    /\ UNCHANGED callVars
    /\ UNCHANGED restVars

\* load_index (lines 199-210) followed by RAGRetriever(index, chunks).
LoadIndex ==
    /\ retriever = NoRetriever
    /\ IF ~disk.index_path.present
       THEN load_error' = "RuntimeError" /\ retriever' = retriever
       ELSE IF ~disk.chunks_path.present
       THEN load_error' = "FileNotFoundError" /\ retriever' = retriever
       ELSE /\ retriever' = [is_none |-> FALSE,
                             index   |-> ReadIndex(disk.index_path.data),
                             chunks  |-> PickleLoad(disk.chunks_path.data)]
            /\ load_error' = "none"
    /\ UNCHANGED <<all_chunks, embeddings, index, build_pc, disk, out>>
    /\ UNCHANGED chunkVars
    /\ UNCHANGED callVars
    /\ UNCHANGED restVars

\* RAGRetriever.search(query, k) (lines 95-116); the embedding call either
\* fails or returns the query's vector.
Search ==
    /\ ~retriever.is_none
    /\ \E k \in 1..MaxK :
        \/ out' = [status |-> "raised", error |-> "OpenAIError", k |-> k]
        \/ \E q \in Vec : out' = SearchOutcome(retriever, q, k)
    /\ UNCHANGED <<all_chunks, embeddings, index, build_pc, disk, retriever, load_error>>
    /\ UNCHANGED chunkVars
    /\ UNCHANGED callVars
    /\ UNCHANGED restVars

Next ==
    \/ BuildExitNoChunks
    \/ CreateEmbeddings
    \/ CreateFaissIndex
    \/ SaveIndex
    \/ LoadIndex
    \/ Search

Spec == Init /\ [][Next]_vars

(***************************************************************************)
(* create_embeddings_batch(texts, batch_size), one remote call per step,   *)
(* followed by the rest of the build (create_faiss_index, save_index).     *)
(* texts are the chunk texts; the empty list is the direct call that the   *)
(* __main__ block guards against (lines 233-235).                          *)
(***************************************************************************)
ChunkTexts(cs) == [r \in 1..Len(cs) |-> cs[r].text]

\* Mutant of BatchSlice: the batch reaches one text into the next batch.
BatchSliceOneMore(texts, pos, size) == Slice(texts, pos, pos + size + 1)

\* texts[i:i + batch_size]
BatchSlice(texts, pos, size) == Slice(texts, pos, pos + size)

\* Mutant of BatchExtend: the batch's vectors put in front of the list.
BatchExtendInFront(list, resp) == resp \o list

\* embeddings.extend(batch_embeddings)
BatchExtend(list, resp) == list \o resp

\* Mutant of BatchAfterFailure: the failed batch skipped, the loop goes on.
BatchSkipFailure(b, slice) ==
    [b EXCEPT !.pos = @ + b.size,
              !.calls = Append(@, [input |-> slice, ok |-> FALSE])]

\* client.embeddings.create raised (lines 103-106): nothing catches it.
BatchAfterFailure(b, slice) ==
    [b EXCEPT !.status = "raised",
              !.error = "OpenAIError",
              !.calls = Append(@, [input |-> slice, ok |-> FALSE])]

\* client.embeddings.create returned resp (lines 103-110), next batch.
BatchAfterSuccess(b, slice, resp) ==
    [b EXCEPT !.embeddings = BatchExtend(@, resp),
              !.pos = @ + b.size,
              !.calls = Append(@, [input |-> slice, ok |-> TRUE, output |-> resp])]

\* The call create_embeddings_batch(texts, batch_size) has just been made.
InitBatch ==
    /\ \E n \in 0..MaxN : all_chunks = CorpusChunks(n)
    /\ \E size \in 1..MaxB :
           batch = [status |-> "running", error |-> "none",
                    texts |-> ChunkTexts(all_chunks), size |-> size,
                    pos |-> 0, embeddings |-> <<>>, calls |-> <<>>]
    /\ embeddings = "None"
    /\ index = "None"
    /\ build_pc = "embedding"
    /\ disk = [index_path |-> NoFile, chunks_path |-> NoFile]
    /\ retriever = NoRetriever
    /\ load_error = "none"
    /\ out = [status |-> "idle"]
    /\ InitChunkIdle
    /\ req = NoRequest
    /\ InitRestIdle

\* Lines 99-114: one iteration of the loop, one remote call; the service
\* fails the call or returns one vector per text of the batch, in order.
BatchCall ==
    /\ batch.status = "running"
    /\ InRange(batch.pos, Len(batch.texts), batch.size)
    /\ LET slice == BatchSlice(batch.texts, batch.pos, batch.size)
       IN  \/ /\ batch' = BatchAfterFailure(batch, slice)
              /\ build_pc' = IF batch'.status = "raised" THEN "raised" ELSE build_pc
           \/ /\ \E resp \in [1..Len(slice) -> Vec] :
                     batch' = BatchAfterSuccess(batch, slice, resp)
              /\ build_pc' = build_pc
    /\ UNCHANGED <<all_chunks, embeddings, index, disk, retriever, load_error, out, req>>
    /\ UNCHANGED restVars
    /\ UNCHANGED chunkVars

\* Lines 117-120: the loop is over, the list becomes the array returned.
BatchReturn ==
    /\ batch.status = "running"
    /\ ~InRange(batch.pos, Len(batch.texts), batch.size)
    /\ batch' = [batch EXCEPT !.status = "returned"]
    /\ embeddings' = NpArray(batch.embeddings)
    /\ build_pc' = "embedded"
    /\ UNCHANGED <<all_chunks, index, disk, retriever, load_error, out, req>>
    /\ UNCHANGED restVars
    /\ UNCHANGED chunkVars

NextBatch ==
    \/ BatchCall
    \/ BatchReturn
    \/ CreateFaissIndex
    \/ SaveIndex
    \/ LoadIndex

SpecBatch == InitBatch /\ [][NextBatch]_vars

(***************************************************************************)
(* The /ask handler (api.py ask_question): RAGRetriever.ask = search, then *)
(* generate_answer; estimate_cost; the HTTP response.  One action per      *)
(* call of the chain, so that the order of the remote calls is observable. *)
(* Strings built by the code are sequences of tokens: a chunk text is its  *)
(* characters, a literal of the f-string is one token.                     *)
(***************************************************************************)
Queries == {"What is GDPR?", "abc"}
Models == {"gpt-4o-mini", "gpt-3.5-turbo", "gpt-4o"}
Answers == {"Selon [Source: a.pdf] ...", "Je ne trouve pas cette information dans les documents fournis."}
\* completion.usage as reported by the remote model.
Usages ==
    {[prompt_tokens |-> 1000, completion_tokens |-> 200, total_tokens |-> 1200],
     [prompt_tokens |-> 40, completion_tokens |-> 10, total_tokens |-> 50]}

NoResult == [present |-> FALSE]
NoResponse == [status_code |-> 0]
NoCall == [sent |-> FALSE]

\* str(n) for n >= 0, as the f-string formats the extract number.
Digits == <<"0", "1", "2", "3", "4", "5", "6", "7", "8", "9">>
RECURSIVE Str(_)
Str(n) == IF n < 10 THEN <<Digits[n + 1]>> ELSE Str(n \div 10) \o <<Digits[(n % 10) + 1]>>

\* Mutant of ContextBlock: extract numbers counted from 0.
ContextBlockFromZero(pos, chunk) ==
    <<"[Extrait ">> \o Str(pos - 1) \o <<" - Source: ", chunk.source, "]\n">>
        \o chunk.text \o <<"\n\n">>

\* Lines 143-145 for the pos-th chunk (enumerate from 1).
ContextBlock(pos, chunk) ==
    <<"[Extrait ">> \o Str(pos) \o <<" - Source: ", chunk.source, "]\n">>
        \o chunk.text \o <<"\n\n">>

\* Lines 141-145: the blocks of the first m chunks, in list order.
RECURSIVE ContextUpTo(_, _)
ContextUpTo(context_chunks, m) ==
    IF m = 0 THEN <<>>
    ELSE ContextUpTo(context_chunks, m - 1) \o ContextBlock(m, context_chunks[m])
Context(context_chunks) == ContextUpTo(context_chunks, Len(context_chunks))

SystemPrompt == "Tu es un assistant juridique expert. ..."
\* Lines 155-161.
UserPrompt(query, context_chunks) ==
    <<"Contexte (extraits de documents juridiques) :\n\n">>
        \o Context(context_chunks)
        \o <<"\n\nQuestion : ", query, "\n\nRéponds de manière claire et cite tes sources.">>

\* Lines 166-174: the arguments of client.chat.completions.create.
ChatCall(query, context_chunks, model) ==
    [sent |-> TRUE, model |-> model,
     messages |-> <<[role |-> "system", content |-> <<SystemPrompt>>],
                    [role |-> "user", content |-> UserPrompt(query, context_chunks)]>>,
     max_tokens |-> 500, temperature |-> "0.3"]

\* Mutant of AnswerRecord: prompt and completion counts exchanged.
AnswerRecordSwapTokens(query, context_chunks, model, answer, usage) ==
    [query |-> query, answer |-> answer,
     sources |-> [j \in 1..Len(context_chunks) |-> context_chunks[j].source],
     num_chunks_used |-> Len(context_chunks), model |-> model,
     tokens_used |-> [prompt |-> usage.completion_tokens,
                      completion |-> usage.prompt_tokens,
                      total |-> usage.total_tokens]]

\* Lines 177-191: the result dictionary.
AnswerRecord(query, context_chunks, model, answer, usage) ==
    [query |-> query, answer |-> answer,
     sources |-> [j \in 1..Len(context_chunks) |-> context_chunks[j].source],
     num_chunks_used |-> Len(context_chunks), model |-> model,
     tokens_used |-> [prompt |-> usage.prompt_tokens,
                      completion |-> usage.completion_tokens,
                      total |-> usage.total_tokens]]

\* estimate_cost: prices in cents per million tokens, costs in millionths of
\* a dollar (the unit round(x, 6) rounds to).
Prices ==
    [m \in {"gpt-4o-mini", "gpt-3.5-turbo", "gpt-4"} |->
        CASE m = "gpt-4o-mini"   -> [input |-> 15, output |-> 60]
          [] m = "gpt-3.5-turbo" -> [input |-> 50, output |-> 150]
          [] m = "gpt-4"         -> [input |-> 3000, output |-> 6000]]
\* Mutant of PricedModel: an unlisted model priced as gpt-4.
PricedModelFallbackGpt4(model) == IF model \in DOMAIN Prices THEN model ELSE "gpt-4"
PricedModel(model) == IF model \in DOMAIN Prices THEN model ELSE "gpt-4o-mini"
\* round(c / 100) to the nearest integer, ties to even.
RoundCents(c) ==
    LET lo == c \div 100
        rest == c % 100
    IN  IF rest < 50 THEN lo
        ELSE IF rest > 50 THEN lo + 1
        ELSE IF lo % 2 = 0 THEN lo ELSE lo + 1
EstimateCost(tokens_used, model) ==
    LET priced == PricedModel(model)
        input_cost == tokens_used.prompt * Prices[priced].input
        output_cost == tokens_used.completion * Prices[priced].output
    IN  [input_cost_usd  |-> RoundCents(input_cost),
         output_cost_usd |-> RoundCents(output_cost),
         total_cost_usd  |-> RoundCents(input_cost + output_cost),
         model           |-> priced]

\* A request that reached the retriever: the handler's locals.
NewRequest(query, k, model) ==
    [pc |-> "received", query |-> query, k |-> k, model |-> model,
     log |-> <<>>, failed_at |-> "none", error |-> "none",
     query_embedding |-> <<>>, relevant_chunks |-> <<>>,
     call |-> NoCall, completion |-> NoResult, result |-> NoResult,
     response |-> NoResponse]

\* Lines 245-249 of api.py: no retriever.  (startup_error replaces the
\* default detail when startup recorded one.)
Unavailable(query, k, model) ==
    [NewRequest(query, k, model) EXCEPT
        !.pc = "done",
        !.response = [status_code |-> 503,
                      detail |-> <<"Index non chargé. Lance 'python src/embeddings.py' d'abord.">>]]

\* create_query_embedding (retrieval.py 72-77): the remote call raised.
AfterEmbedFailure(r) ==
    [r EXCEPT !.pc = "failed", !.log = Append(@, "embed"),
              !.failed_at = "embed", !.error = "OpenAIError"]

AfterEmbedOk(r, q) ==
    [r EXCEPT !.pc = "embedded", !.log = Append(@, "embed"), !.query_embedding = q]

\* Mutant of AfterSearch: a failed search is swallowed and ask goes on with
\* no chunk.
AfterSearchSwallowError(r, o) ==
    IF o.status = "raised"
    THEN [r EXCEPT !.pc = "searched", !.log = Append(@, "search"),
                   !.failed_at = "search", !.error = o.error]
    ELSE [r EXCEPT !.pc = "searched", !.log = Append(@, "search"),
                   !.relevant_chunks = o.results]

\* retrieval.py 103-116 inside ask (line 214): the outcome o of the search.
AfterSearch(r, o) ==
    IF o.status = "raised"
    THEN [r EXCEPT !.pc = "failed", !.log = Append(@, "search"),
                   !.failed_at = "search", !.error = o.error]
    ELSE [r EXCEPT !.pc = "searched", !.log = Append(@, "search"),
                   !.relevant_chunks = o.results]

\* generate_answer (line 217): the chat completion call raised.
AfterGenerateFailure(r) ==
    [r EXCEPT !.pc = "failed", !.log = Append(@, "generate"),
              !.call = ChatCall(r.query, r.relevant_chunks, r.model),
              !.failed_at = "generate", !.error = "OpenAIError"]

AfterGenerateOk(r, answer, usage) ==
    [r EXCEPT !.pc = "generated", !.log = Append(@, "generate"),
              !.call = ChatCall(r.query, r.relevant_chunks, r.model),
              !.completion = [present |-> TRUE, content |-> answer, usage |-> usage],
              !.result = AnswerRecord(r.query, r.relevant_chunks, r.model, answer, usage)]

\* Mutant of Respond: on failure the chunks already retrieved are returned.
RespondPartial(r) ==
    IF r.pc = "generated"
    THEN [r EXCEPT !.pc = "done",
                   !.response = [status_code |-> 200,
                                 body |-> [estimated_cost |-> EstimateCost(r.result.tokens_used, r.model)]
                                              @@ r.result]]
    ELSE [r EXCEPT !.pc = "done",
                   !.response = [status_code |-> 200,
                                 body |-> [sources |-> [j \in 1..Len(r.relevant_chunks) |->
                                                           r.relevant_chunks[j].source]]]]

\* api.py 251-265: the response built from ask's result, or from the
\* exception ask raised.
Respond(r) ==
    IF r.pc = "generated"
    THEN [r EXCEPT !.pc = "done",
                   !.response = [status_code |-> 200,
                                 body |-> [estimated_cost |-> EstimateCost(r.result.tokens_used, r.model)]
                                              @@ r.result]]
    ELSE [r EXCEPT !.pc = "done",
                   !.response = [status_code |-> 500,
                                 detail |-> <<"Erreur lors du traitement : ", r.error>>]]

\* The vectors of an index of n rows, all different.
AskVectors == <<<<0, 0>>, <<1, 1>>, <<0, 1>>, <<1, 0>>>>
AskRows(n) == [r \in 1..n |-> AskVectors[((r - 1) % Len(AskVectors)) + 1]]

\* The API process after startup: either nothing could be loaded, or the
\* retriever holds what load_index read.  The chunk artifact is the one
\* saved with the index, or the one of an earlier, one chunk shorter build
\* (save_index rewrote legal.faiss and stopped before chunks.pkl).
InitAsk ==
    /\ \/ /\ disk = [index_path |-> NoFile, chunks_path |-> NoFile]
          /\ retriever = NoRetriever
          /\ load_error = "RuntimeError"
       \/ \E n \in 1..MaxN, stale \in BOOLEAN :
            /\ disk = [index_path  |-> [present |-> TRUE,
                                        data |-> WriteIndex(IndexFlatL2(2, NpArray(AskRows(n))))],
                       chunks_path |-> [present |-> TRUE,
                                        data |-> PickleDump(CorpusChunks(IF stale THEN n - 1 ELSE n))]]
            /\ retriever = [is_none |-> FALSE,
                            index   |-> ReadIndex(disk.index_path.data),
                            chunks  |-> PickleLoad(disk.chunks_path.data)]
            /\ load_error = "none"
    /\ all_chunks = <<>>
    /\ embeddings = "None"
    /\ index = "None"
    /\ build_pc = "off"
    /\ out = [status |-> "idle"]
    /\ InitChunkIdle
    /\ batch = NoBatch
    /\ req = NoRequest
    /\ InitRestIdle

\* GET /ask: parameter validation passed (query of 3+ characters, 1 <= k).
AskReceive ==
    /\ req.pc \in {"idle", "done"}
    /\ \E query \in Queries, k \in 1..MaxK, model \in Models :
          req' = IF retriever.is_none
                 THEN Unavailable(query, k, model)
                 ELSE NewRequest(query, k, model)
    /\ UNCHANGED <<indexVars, chunkVars, batch>>
    /\ UNCHANGED restVars

\* search, line 98: the query embedding.
AskEmbed ==
    /\ req.pc = "received"
    /\ \/ req' = AfterEmbedFailure(req)
       \/ \E q \in Vec : req' = AfterEmbedOk(req, q)
    /\ UNCHANGED <<indexVars, chunkVars, batch>>
    /\ UNCHANGED restVars

\* search, lines 103-116.
AskSearch ==
    /\ req.pc = "embedded"
    /\ req' = AfterSearch(req, SearchOutcome(retriever, req.query_embedding, req.k))
    /\ UNCHANGED <<indexVars, chunkVars, batch>>
    /\ UNCHANGED restVars

\* generate_answer, lines 141-195.
AskGenerate ==
    /\ req.pc = "searched"
    /\ \/ req' = AfterGenerateFailure(req)
       \/ \E answer \in Answers, usage \in Usages :
             req' = AfterGenerateOk(req, answer, usage)
    /\ UNCHANGED <<indexVars, chunkVars, batch>>
    /\ UNCHANGED restVars

AskRespond ==
    /\ req.pc \in {"generated", "failed"}
    /\ req' = Respond(req)
    /\ UNCHANGED <<indexVars, chunkVars, batch>>
    /\ UNCHANGED restVars

NextAsk ==
    \/ AskReceive
    \/ AskEmbed
    \/ AskSearch
    \/ AskGenerate
    \/ AskRespond

SpecAsk == InitAsk /\ [][NextAsk]_vars

(***************************************************************************)
(* clean_text(text), one statement per step, then a second call on the     *)
(* result.                                                                 *)
(***************************************************************************)
CleanChars == {"a"} \cup Whitespace
CleanTexts == UNION {[1..n -> CleanChars] : n \in 0..MaxTextLen}

\* The first position at or after p of t that is not in set (Len(t) + 1 if none).
RECURSIVE RunEnd(_, _, _)
RunEnd(t, p, set) ==
    IF p > Len(t) THEN p
    ELSE IF t[p] \in set THEN RunEnd(t, p + 1, set) ELSE p

\* re.sub(r'\s+', ' ', t) from position p on.
RECURSIVE SubWhitespaceFrom(_, _)
SubWhitespaceFrom(t, p) ==
    IF p > Len(t) THEN <<>>
    ELSE IF t[p] \in Whitespace
         THEN <<" ">> \o SubWhitespaceFrom(t, RunEnd(t, p, Whitespace))
         ELSE <<t[p]>> \o SubWhitespaceFrom(t, p + 1)
SubWhitespace(t) == SubWhitespaceFrom(t, 1)

RECURSIVE LStrip(_)
LStrip(t) == IF t # <<>> /\ t[1] \in Whitespace THEN LStrip(Tail(t)) ELSE t
RECURSIVE RStrip(_)
RStrip(t) ==
    IF t # <<>> /\ t[Len(t)] \in Whitespace THEN RStrip(SubSeq(t, 1, Len(t) - 1)) ELSE t

\* Mutant of Strip: only the leading whitespace removed.
StripLeftOnly(t) == LStrip(t)

\* t.strip()
Strip(t) == RStrip(LStrip(t))

\* re.sub(r'\n\n+', '\n\n', t) from position p on.
RECURSIVE SubNewlinesFrom(_, _)
SubNewlinesFrom(t, p) ==
    IF p > Len(t) THEN <<>>
    ELSE IF t[p] = "\n" /\ RunEnd(t, p, {"\n"}) >= p + 2
         THEN <<"\n", "\n">> \o SubNewlinesFrom(t, RunEnd(t, p, {"\n"}))
         ELSE <<t[p]>> \o SubNewlinesFrom(t, p + 1)
SubNewlines(t) == SubNewlinesFrom(t, 1)

\* A whole call (lines 76-84).
CleanText(t) == SubNewlines(Strip(SubWhitespace(t)))

InitClean ==
    /\ \E t \in CleanTexts :
          clean = [pc |-> "call", arg |-> t, text |-> t, result |-> <<>>, again |-> <<>>]
    /\ api = NoApi
    /\ reqs = <<>>
    /\ proc = NoProc
    /\ InitChunkIdle
    /\ InitIndexIdle
    /\ batch = NoBatch
    /\ req = NoRequest

\* Line 76.
CleanSubWhitespace ==
    /\ clean.pc = "call"
    /\ clean' = [clean EXCEPT !.pc = "subbed", !.text = SubWhitespace(@)]
    /\ UNCHANGED <<chunkVars, indexVars, callVars, api, reqs, proc>>

\* Line 79.
CleanStrip ==
    /\ clean.pc = "subbed"
    /\ clean' = [clean EXCEPT !.pc = "stripped", !.text = Strip(@)]
    /\ UNCHANGED <<chunkVars, indexVars, callVars, api, reqs, proc>>

\* Lines 82-84.
CleanSubNewlines ==
    /\ clean.pc = "stripped"
    /\ clean' = [clean EXCEPT !.pc = "returned", !.text = SubNewlines(@),
                              !.result = SubNewlines(clean.text)]
    /\ UNCHANGED <<chunkVars, indexVars, callVars, api, reqs, proc>>

\* clean_text called on its own result.
CleanAgain ==
    /\ clean.pc = "returned"
    /\ clean' = [clean EXCEPT !.pc = "twice", !.again = CleanText(clean.result)]
    /\ UNCHANGED <<chunkVars, indexVars, callVars, api, reqs, proc>>

NextClean == CleanSubWhitespace \/ CleanStrip \/ CleanSubNewlines \/ CleanAgain

SpecClean == InitClean /\ [][NextClean]_vars

(***************************************************************************)
(* process_all_pdfs(chunk_size, overlap) over a directory, one file per    *)
(* step.  A file is its name and what extraction reads from it.            *)
(***************************************************************************)
FileNames == {"a.pdf", "c.pdf", "b.txt", "notes.md"}
\* f.endswith(suffix) for the names above.
EndsWith(f, suffix) ==
    suffix = (CASE f \in {"a.pdf", "c.pdf"} -> ".pdf"
                [] f = "b.txt" -> ".txt"
                [] OTHER -> ".md")

\* What a file holds: raw text, or bytes the extractor cannot read.
Unreadable == [readable |-> FALSE]
RawTexts ==
    {<<>>, <<"a">>, <<"a", "\n", "b">>, <<" ", "a", " ", "b", "\t", "a">>}
Contents == {[readable |-> TRUE, text |-> t] : t \in RawTexts} \cup {Unreadable}

\* os.listdir: the names in an arbitrary order, none twice.
Listings ==
    {l \in UNION {[1..n -> FileNames] : n \in 0..MaxFiles} :
        \A r, q \in 1..Len(l) : l[r] = l[q] => r = q}
ListedNames(l) == {l[r] : r \in 1..Len(l)}
ProcConfigs == {<<2, 1>>, <<1, 0>>}

\* [f for f in listing if f.endswith(suffix)]
RECURSIVE FilterSuffix(_, _)
FilterSuffix(l, suffix) ==
    IF l = <<>> THEN <<>>
    ELSE IF EndsWith(l[1], suffix)
         THEN <<l[1]>> \o FilterSuffix(Tail(l), suffix)
         ELSE FilterSuffix(Tail(l), suffix)

\* Mutant of PdfFiles: the .txt files are taken as PDFs too.
PdfFilesAndTxt(l) == FilterSuffix(l, ".pdf") \o FilterSuffix(l, ".txt")

\* Lines 161-162.
PdfFiles(l) == FilterSuffix(l, ".pdf")
TxtFiles(l) == FilterSuffix(l, ".txt")

\* The exception chunk_text ends with, or "none" (see ChunkSplit, ChunkReport).
ChunkTextError(t, cs, ov) ==
    IF RangeStep(cs, ov) = 0 THEN "ValueError"
    ELSE IF ChunkText(t, cs, ov) = <<>> THEN "ZeroDivisionError"
    ELSE "none"

\* for chunk in chunks: chunk["source"] = file
TagSource(made, file) == [r \in 1..Len(made) |-> [source |-> file] @@ made[r]]

\* One iteration of either loop on file f: extraction, clean_text,
\* chunk_text, the source tag, extend.  error is what the extractor raises
\* on bytes it cannot read.
ProcessFile(p, f, error) ==
    IF ~p.content[f].readable
    THEN [p EXCEPT !.pc = "raised", !.raised = error]
    ELSE LET cleaned == CleanText(p.content[f].text)
             failure == ChunkTextError(cleaned, p.chunk_size, p.overlap)
         IN  IF failure # "none"
             THEN [p EXCEPT !.pc = "raised", !.raised = failure]
             ELSE [p EXCEPT !.pos = @ + 1,
                            !.all_chunks = @ \o TagSource(
                                ChunkText(cleaned, p.chunk_size, p.overlap), f)]

InitProc ==
    /\ \E exists \in BOOLEAN, l \in Listings, cfg \in ProcConfigs :
         /\ exists \/ l = <<>>
         /\ \E content \in [ListedNames(l) -> Contents] :
              proc = [pc |-> "call", exists |-> exists, listing |-> l,
                      content |-> content, chunk_size |-> cfg[1], overlap |-> cfg[2],
                      pdf_files |-> <<>>, txt_files |-> <<>>, pos |-> 1,
                      all_chunks |-> <<>>, raised |-> "none"]
    /\ api = NoApi
    /\ reqs = <<>>
    /\ clean = NoClean
    /\ InitChunkIdle
    /\ InitIndexIdle
    /\ batch = NoBatch
    /\ req = NoRequest

\* Lines 152-168: the directory, the two file lists.
ProcList ==
    /\ proc.pc = "call"
    /\ proc' = IF ~proc.exists
               THEN [proc EXCEPT !.pc = "returned"]
               ELSE LET p == [proc EXCEPT !.pdf_files = PdfFiles(proc.listing),
                                          !.txt_files = TxtFiles(proc.listing)]
                    IN  IF p.pdf_files \o p.txt_files = <<>>
                        THEN [p EXCEPT !.pc = "returned"]
                        ELSE [p EXCEPT !.pc = "pdfs"]
    /\ UNCHANGED <<chunkVars, indexVars, callVars, api, reqs, clean>>

\* Lines 172-189: one PDF.
ProcPdf ==
    /\ proc.pc = "pdfs"
    /\ proc.pos <= Len(proc.pdf_files)
    /\ proc' = ProcessFile(proc, proc.pdf_files[proc.pos], "FileDataError")
    /\ UNCHANGED <<chunkVars, indexVars, callVars, api, reqs, clean>>

\* Line 172: no PDF left; the TXT loop starts.
ProcPdfsDone ==
    /\ proc.pc = "pdfs"
    /\ proc.pos > Len(proc.pdf_files)
    /\ proc' = [proc EXCEPT !.pc = "txts", !.pos = 1]
    /\ UNCHANGED <<chunkVars, indexVars, callVars, api, reqs, clean>>

\* Lines 192-209: one TXT.
ProcTxt ==
    /\ proc.pc = "txts"
    /\ proc.pos <= Len(proc.txt_files)
    /\ proc' = ProcessFile(proc, proc.txt_files[proc.pos], "UnicodeDecodeError")
    /\ UNCHANGED <<chunkVars, indexVars, callVars, api, reqs, clean>>

\* Lines 211-213.
ProcReturn ==
    /\ proc.pc = "txts"
    /\ proc.pos > Len(proc.txt_files)
    /\ proc' = [proc EXCEPT !.pc = "returned"]
    /\ UNCHANGED <<chunkVars, indexVars, callVars, api, reqs, clean>>

NextProc == ProcList \/ ProcPdf \/ ProcPdfsDone \/ ProcTxt \/ ProcReturn

SpecProc == InitProc /\ [][NextProc]_vars

(***************************************************************************)
(* The API process start (api.py startup_event) and save_index write by    *)
(* write, so that a build can stop between its two writes and the API can  *)
(* start on whatever is on disk.                                           *)
(***************************************************************************)
\* A file opened for writing whose content was never completed.
TruncatedFile == [present |-> TRUE]
Loadable(file) == file.present /\ "data" \in DOMAIN file
SavedFile(data) == [present |-> TRUE, data |-> data]

\* index_exists (embeddings.py 220).
IndexExists(d) == d.index_path.present /\ d.chunks_path.present

\* The module globals after import (api.py 59-61); api_key is the
\* environment's OPENAI_API_KEY being set.
ApiImported(api_key) ==
    [pc |-> "import", api_key |-> api_key, embedding_manager |-> "None",
     startup_error |-> "None", index_exists_called |-> FALSE, index_exists |-> FALSE]

\* startup_event, lines 111-141: the globals it leaves.
ApiAfterStartup(a, d) ==
    IF ~a.api_key
    THEN [a EXCEPT !.pc = "started",
                   !.startup_error =
                       "Erreur au démarrage : Clé API OpenAI manquante dans le fichier .env"]
    ELSE IF ~IndexExists(d)
    THEN [a EXCEPT !.pc = "started", !.embedding_manager = "EmbeddingManager",
                   !.index_exists_called = TRUE, !.index_exists = FALSE,
                   !.startup_error =
                       "Index FAISS non trouvé. Lance 'python src/embeddings.py' pour créer l'index."]
    ELSE IF ~Loadable(d.index_path)
    THEN [a EXCEPT !.pc = "started", !.embedding_manager = "EmbeddingManager",
                   !.index_exists_called = TRUE, !.index_exists = TRUE,
                   !.startup_error = "Erreur au démarrage : Error in faiss::read_index"]
    ELSE IF ~Loadable(d.chunks_path)
    THEN [a EXCEPT !.pc = "started", !.embedding_manager = "EmbeddingManager",
                   !.index_exists_called = TRUE, !.index_exists = TRUE,
                   !.startup_error = "Erreur au démarrage : Ran out of input"]
    ELSE [a EXCEPT !.pc = "started", !.embedding_manager = "EmbeddingManager",
                   !.index_exists_called = TRUE, !.index_exists = TRUE]

\* startup_event: the retriever global it leaves (lines 126-129).
RetrieverAfterStartup(a, d) ==
    IF a.api_key /\ IndexExists(d) /\ Loadable(d.index_path) /\ Loadable(d.chunks_path)
    THEN [is_none |-> FALSE,
          index   |-> ReadIndex(d.index_path.data),
          chunks  |-> PickleLoad(d.chunks_path.data)]
    ELSE NoRetriever

Startup ==
    /\ api.pc = "import"
    /\ api' = ApiAfterStartup(api, disk)
    /\ retriever' = RetrieverAfterStartup(api, disk)
    /\ load_error' = IF ~api.api_key \/ ~IndexExists(disk) THEN load_error
                     ELSE IF ~Loadable(disk.index_path) THEN "RuntimeError"
                     ELSE IF ~Loadable(disk.chunks_path) THEN "EOFError"
                     ELSE "none"
    /\ UNCHANGED <<all_chunks, embeddings, index, build_pc, disk, out>>
    /\ UNCHANGED <<chunkVars, callVars, reqs, clean, proc>>

\* Mutant of DiskAfterInterrupt: an interrupted save removes what it wrote.
DiskAfterInterruptRollback(d) ==
    [index_path |-> NoFile, chunks_path |-> d.chunks_path]

\* save_index has no try/finally: what is on disk stays when it stops.
DiskAfterInterrupt(d) == d

\* The artifacts of an earlier complete build of m chunks (none for m = 0).
PreviousArtifacts(m) ==
    IF m = 0 THEN [index_path |-> NoFile, chunks_path |-> NoFile]
    ELSE [index_path  |-> SavedFile(WriteIndex(IndexFlatL2(2, NpArray(AskRows(m))))),
          chunks_path |-> SavedFile(PickleDump(CorpusChunks(m)))]

\* A build that reached save_index with n chunks, over what an earlier
\* build of m chunks left; the API process not started yet.
InitSave ==
    /\ \E n \in 1..MaxN, m \in 0..MaxN :
         /\ all_chunks = CorpusChunks(n)
         /\ embeddings = NpArray(AskRows(n))
         /\ index = IndexFlatL2(2, embeddings)
         /\ disk = PreviousArtifacts(m)
    /\ build_pc = "indexed"
    /\ retriever = NoRetriever
    /\ load_error = "none"
    /\ out = [status |-> "idle"]
    /\ \E api_key \in BOOLEAN : api = ApiImported(api_key)
    /\ reqs = <<>>
    /\ clean = NoClean
    /\ proc = NoProc
    /\ InitChunkIdle
    /\ batch = NoBatch
    /\ req = NoRequest

\* Line 174: faiss.write_index opens the file for writing.
SaveOpenIndex ==
    /\ build_pc = "indexed"
    /\ disk' = [disk EXCEPT !.index_path = TruncatedFile]
    /\ build_pc' = "index_open"
    /\ UNCHANGED <<all_chunks, embeddings, index, retriever, load_error, out>>
    /\ UNCHANGED <<chunkVars, callVars, restVars>>

\* Line 174: faiss.write_index writes the index and returns.
SaveWriteIndex ==
    /\ build_pc = "index_open"
    /\ disk' = [disk EXCEPT !.index_path = SavedFile(WriteIndex(index))]
    /\ build_pc' = "index_written"
    /\ UNCHANGED <<all_chunks, embeddings, index, retriever, load_error, out>>
    /\ UNCHANGED <<chunkVars, callVars, restVars>>

\* Line 178: open(chunks_path, 'wb') truncates the file.
SaveOpenChunks ==
    /\ build_pc = "index_written"
    /\ disk' = [disk EXCEPT !.chunks_path = TruncatedFile]
    /\ build_pc' = "chunks_open"
    /\ UNCHANGED <<all_chunks, embeddings, index, retriever, load_error, out>>
    /\ UNCHANGED <<chunkVars, callVars, restVars>>

\* Line 179: pickle.dump.
SaveDumpChunks ==
    /\ build_pc = "chunks_open"
    /\ disk' = [disk EXCEPT !.chunks_path = SavedFile(PickleDump(all_chunks))]
    /\ build_pc' = "saved"
    /\ UNCHANGED <<all_chunks, embeddings, index, retriever, load_error, out>>
    /\ UNCHANGED <<chunkVars, callVars, restVars>>

\* The build stops (exception or kill) during the first write, between the
\* two writes, or during the second.
SaveInterrupted ==
    /\ build_pc \in {"index_open", "index_written", "chunks_open"}
    /\ disk' = DiskAfterInterrupt(disk)
    /\ build_pc' = CASE build_pc = "index_open" -> "failed_in_write"
                     [] build_pc = "index_written" -> "failed_between"
                     [] build_pc = "chunks_open" -> "failed_in_dump"
    /\ UNCHANGED <<all_chunks, embeddings, index, retriever, load_error, out>>
    /\ UNCHANGED <<chunkVars, callVars, restVars>>

NextSave ==
    \/ SaveOpenIndex
    \/ SaveWriteIndex
    \/ SaveOpenChunks
    \/ SaveDumpChunks
    \/ SaveInterrupted
    \/ Startup

SpecSave == InitSave /\ [][NextSave]_vars

(***************************************************************************)
(* The API process serving several clients at once.  Each client's request *)
(* advances one call at a time (the steps of SpecAsk), so the requests     *)
(* interleave; /stats and /health run in one step.  The handlers can run   *)
(* before startup_event (a test client without lifespan), with the globals *)
(* as imported.                                                            *)
(***************************************************************************)
ApiClients == {"c1", "c2"}
AskEndpoints == {"/ask", "/ask_post"}
ApiQueries == {"What is GDPR?"}
ApiVec == {<<0, 0>>, <<1, 1>>}
ApiAnswers == {"Selon [Source: a.pdf] ..."}
ApiUsages == {[prompt_tokens |-> 1000, completion_tokens |-> 200, total_tokens |-> 1200]}
ClientIdle == [pc |-> "idle", endpoint |-> "none", log |-> <<>>]

\* The vector artifact of a build of n chunks beside the chunk artifact of
\* a build of m chunks (none for m = 0): a complete save when m = n, a save
\* stopped between its writes otherwise.
ArtifactsOf(n, m) ==
    [index_path  |-> SavedFile(WriteIndex(IndexFlatL2(2, NpArray(AskRows(n))))),
     chunks_path |-> IF m = 0 THEN NoFile ELSE SavedFile(PickleDump(CorpusChunks(m)))]
ApiDisks ==
    {ArtifactsOf(n, n) : n \in 1..MaxN} \cup
    {ArtifactsOf(n, n - 1) : n \in 1..MaxN} \cup
    {PreviousArtifacts(0)} \cup
    {[index_path  |-> SavedFile(WriteIndex(IndexFlatL2(2, NpArray(AskRows(1))))),
      chunks_path |-> TruncatedFile]}

\* startup_error or default
StartupErrorOr(a, default) ==
    IF a.startup_error # "None" THEN a.startup_error ELSE default

\* Mutant of ApiRefused: the query is embedded before the retriever is tested.
ApiRefusedAfterEmbedding(a, endpoint, default) ==
    [endpoint |-> endpoint, pc |-> "done", log |-> <<"embed">>,
     response |-> [status_code |-> 503, detail |-> StartupErrorOr(a, default)]]

\* if retriever is None: raise HTTPException(503, ...) (api.py 209-213,
\* 245-249, 286-290).
ApiRefused(a, endpoint, default) ==
    [endpoint |-> endpoint, pc |-> "done", log |-> <<>>,
     response |-> [status_code |-> 503, detail |-> StartupErrorOr(a, default)]]

\* The default detail of each endpoint.
DefaultDetail(endpoint) ==
    IF endpoint = "/ask"
    THEN "Index non chargé. Lance 'python src/embeddings.py' d'abord."
    ELSE "Index non chargé"

\* Mutant of GlobalsAfterHandler: a handler clears startup_error.
GlobalsAfterHandlerCleared(a) == [a EXCEPT !.startup_error = "None"]

\* No handler has a global statement: the module globals stay as they are.
GlobalsAfterHandler(a) == a

\* Mutant of StoredAfterSearch: distance and rank set on the stored chunks
\* themselves (no copy).
StoredAfterSearchNoCopy(stored, o) ==
    IF o.status # "returned" THEN stored
    ELSE [r \in 1..Len(stored) |->
            IF \E j \in 1..o.k : o.I[j] = r - 1
            THEN LET j == CHOOSE m \in 1..o.k : o.I[m] = r - 1
                 IN  [distance |-> o.D[j], rank |-> j] @@ stored[r]
            ELSE stored[r]]

\* Mutant of StoredAfterSearch: the best hit is moved to the front of the
\* stored list.
StoredAfterSearchMoveToFront(stored, o) ==
    IF o.status # "returned" \/ o.I[1] < 1 THEN stored
    ELSE <<stored[o.I[1] + 1]>> \o SubSeq(stored, 1, o.I[1])
             \o SubSeq(stored, o.I[1] + 2, Len(stored))

\* self.chunks after search (retrieval.py 106-111): the loop works on
\* self.chunks[idx].copy(), the stored list and its dicts are only read.
StoredAfterSearch(stored, o) == stored

\* GET /stats when the retriever is set (api.py 215-223); list(set(...)) has
\* no defined order, so the sources are a set.
StatsResponse(r) ==
    [status_code |-> 200,
     body |-> [total_chunks  |-> Len(r.chunks),
               total_vectors |-> r.index.ntotal,
               sources       |-> {r.chunks[n].source : n \in 1..Len(r.chunks)},
               index_loaded  |-> TRUE]]

\* Mutant of HealthResponse: the retriever is tested before startup_error.
HealthResponseRetrieverFirst(a, r) ==
    IF r.is_none
    THEN [status_code |-> 200,
          body |-> [status |-> "error", message |-> "Retriever non initialisé",
                    index_loaded |-> FALSE]]
    ELSE [status_code |-> 200,
          body |-> [status |-> "ok", message |-> "API opérationnelle",
                    index_loaded |-> TRUE]]

\* GET /health (api.py 180-199).
HealthResponse(a, r) ==
    IF a.startup_error # "None"
    THEN [status_code |-> 200,
          body |-> [status |-> "warning", message |-> a.startup_error,
                    index_loaded |-> FALSE]]
    ELSE IF r.is_none
    THEN [status_code |-> 200,
          body |-> [status |-> "error", message |-> "Retriever non initialisé",
                    index_loaded |-> FALSE]]
    ELSE [status_code |-> 200,
          body |-> [status |-> "ok", message |-> "API opérationnelle",
                    index_loaded |-> TRUE]]

InitApi ==
    /\ disk \in ApiDisks
    /\ \E api_key \in BOOLEAN : api = ApiImported(api_key)
    /\ retriever = NoRetriever
    /\ reqs = [c \in ApiClients |-> ClientIdle]
    /\ all_chunks = <<>>
    /\ embeddings = "None"
    /\ index = "None"
    /\ build_pc = "off"
    /\ load_error = "none"
    /\ out = [status |-> "idle"]
    /\ clean = NoClean
    /\ proc = NoProc
    /\ InitChunkIdle
    /\ batch = NoBatch
    /\ req = NoRequest

\* What a handler step of client c leaves unchanged besides reqs[c].
ApiFrame ==
    /\ api' = GlobalsAfterHandler(api)
    /\ UNCHANGED <<all_chunks, embeddings, index, build_pc, disk, load_error, out>>
    /\ UNCHANGED <<chunkVars, callVars, clean, proc>>

\* GET /ask or POST /ask_post arrives (validated: 3+ characters, k >= 1).
ApiReceive(c) ==
    /\ reqs[c].pc \in {"idle", "done"}
    /\ \E endpoint \in AskEndpoints, query \in ApiQueries, k \in 1..MaxK :
          reqs' = [reqs EXCEPT ![c] =
                      IF retriever.is_none
                      THEN ApiRefused(api, endpoint, DefaultDetail(endpoint))
                      ELSE [endpoint |-> endpoint] @@ NewRequest(query, k, "gpt-4o-mini")]
    /\ retriever' = retriever
    /\ ApiFrame

ApiEmbed(c) ==
    /\ reqs[c].pc = "received"
    /\ \/ reqs' = [reqs EXCEPT ![c] = AfterEmbedFailure(@)]
       \/ \E q \in ApiVec : reqs' = [reqs EXCEPT ![c] = AfterEmbedOk(@, q)]
    /\ retriever' = retriever
    /\ ApiFrame

ApiSearch(c) ==
    /\ reqs[c].pc = "embedded"
    /\ LET o == SearchOutcome(retriever, reqs[c].query_embedding, reqs[c].k)
       IN  /\ reqs' = [reqs EXCEPT ![c] = AfterSearch(@, o)]
           /\ retriever' = [retriever EXCEPT !.chunks = StoredAfterSearch(@, o)]
    /\ ApiFrame

ApiGenerate(c) ==
    /\ reqs[c].pc = "searched"
    /\ \/ reqs' = [reqs EXCEPT ![c] = AfterGenerateFailure(@)]
       \/ \E answer \in ApiAnswers, usage \in ApiUsages :
             reqs' = [reqs EXCEPT ![c] = AfterGenerateOk(@, answer, usage)]
    /\ retriever' = retriever
    /\ ApiFrame

ApiRespond(c) ==
    /\ reqs[c].pc \in {"generated", "failed"}
    /\ reqs' = [reqs EXCEPT ![c] = Respond(@)]
    /\ retriever' = retriever
    /\ ApiFrame

\* GET /stats, the whole handler.
ApiStats(c) ==
    /\ reqs[c].pc \in {"idle", "done"}
    /\ reqs' = [reqs EXCEPT ![c] =
                   IF retriever.is_none
                   THEN ApiRefused(api, "/stats", DefaultDetail("/stats"))
                   ELSE [endpoint |-> "/stats", pc |-> "done", log |-> <<>>,
                         response |-> StatsResponse(retriever)]]
    /\ retriever' = retriever
    /\ ApiFrame

\* GET /health, the whole handler.
ApiHealth(c) ==
    /\ reqs[c].pc \in {"idle", "done"}
    /\ reqs' = [reqs EXCEPT ![c] =
                   [endpoint |-> "/health", pc |-> "done", log |-> <<>>,
                    response |-> HealthResponse(api, retriever)]]
    /\ retriever' = retriever
    /\ ApiFrame

NextApi ==
    \/ Startup
    \/ \E c \in ApiClients : ApiReceive(c)
    \/ \E c \in ApiClients : ApiEmbed(c)
    \/ \E c \in ApiClients : ApiSearch(c)
    \/ \E c \in ApiClients : ApiGenerate(c)
    \/ \E c \in ApiClients : ApiRespond(c)
    \/ \E c \in ApiClients : ApiStats(c)
    \/ \E c \in ApiClients : ApiHealth(c)

SpecApi == InitApi /\ [][NextApi]_vars

(***************************************************************************)
(* Properties of chunk_text (checked under SpecChunk).                     *)
(***************************************************************************)
Finished == pc \in {"returned", "raised"}
ValidConfig == 0 <= overlap /\ overlap < chunk_size
WordRange(c) == c.start_word .. (c.end_word - 1)
CeilDiv(a, b) == (a + b - 1) \div b

RECURSIVE SumLen(_)
SumLen(ws) == IF ws = <<>> THEN 0 ELSE Len(ws[1]) + SumLen(Tail(ws))

\* t is the words ws (at least one) separated by exactly one space each.
SingleSpaced(t, ws) ==
    /\ Split(t) = ws
    /\ Len(t) = SumLen(ws) + Len(ws) - 1
    /\ \A p \in 1..Len(t) : t[p] \in Whitespace => t[p] = " "

\* C3: for a text of N >= 1 words and 0 <= V < W, chunk_text returns, the
\* union of the chunks' [start_word, end_word) ranges is exactly [0, N), and
\* no chunk starts after the end of its predecessor (no gap).
ChunkCoverage ==
    (Finished /\ ValidConfig /\ Len(words) >= 1) =>
        /\ pc = "returned"
        /\ UNION {WordRange(chunks[j]) : j \in 1..Len(chunks)} = 0..(Len(words) - 1)
        /\ \A j \in 1..(Len(chunks) - 1) :
               chunks[j + 1].start_word <= chunks[j].end_word

\* C3 witness: a returned call with overlapping windows and at least three chunks.
ChunkCoverageWitness ==
    /\ pc = "returned"
    /\ ValidConfig
    /\ overlap >= 1
    /\ Len(chunks) >= 3

\* C4: for a text of N >= 1 words and 0 <= V < W, chunk_text emits exactly
\* ceil(N / (W - V)) chunks; the j-th (from 0) has chunk_id j, start_word
\* j*(W - V), end_word min(start_word + W, N), and its text is the words
\* [start_word, end_word) joined by single spaces.
ChunkLayout ==
    (Finished /\ ValidConfig /\ Len(words) >= 1) =>
        /\ pc = "returned"
        /\ Len(chunks) = CeilDiv(Len(words), chunk_size - overlap)
        /\ \A j \in 1..Len(chunks) :
               LET s == (j - 1) * (chunk_size - overlap)
                   e == Min(s + chunk_size, Len(words))
               IN  /\ chunks[j].chunk_id = j - 1
                   /\ chunks[j].start_word = s
                   /\ chunks[j].end_word = e
                   /\ e - s <= chunk_size
                   /\ SingleSpaced(chunks[j].text, SubSeq(words, s + 1, e))

\* C4 witness: three chunks, the last one cut short by the end of the text,
\* the first one holding two different words.
ChunkLayoutWitness ==
    /\ pc = "returned"
    /\ ValidConfig
    /\ Len(chunks) = 3
    /\ chunks[3].end_word - chunks[3].start_word < chunk_size
    /\ chunks[1].end_word - chunks[1].start_word >= 2
    /\ words[1] # words[2]

Shared(c1, c2) == Cardinality(WordRange(c1) \cap WordRange(c2))

\* C5 as stated: every pair of consecutive chunks that does not involve the
\* final chunk shares exactly V words.
OverlapExactExceptFinalPair ==
    (pc = "returned" /\ ValidConfig) =>
        \A j \in 1..(Len(chunks) - 2) : Shared(chunks[j], chunks[j + 1]) = overlap

\* C5 amended: two consecutive chunks share exactly V words when the earlier
\* one is a full window (start_word + W <= N); when the earlier one is cut short
\* by the end of the text they share N - start_word(later) words, fewer than V.
OverlapExactForFullWindows ==
    (pc = "returned" /\ ValidConfig) =>
        \A j \in 1..(Len(chunks) - 1) :
            IF chunks[j].start_word + chunk_size <= Len(words)
            THEN Shared(chunks[j], chunks[j + 1]) = overlap
            ELSE /\ Shared(chunks[j], chunks[j + 1]) = Len(words) - chunks[j + 1].start_word
                 /\ Shared(chunks[j], chunks[j + 1]) < overlap

\* C5 witness: a full window followed by a cut one followed by a further chunk.
OverlapWitness ==
    /\ pc = "returned"
    /\ ValidConfig
    /\ overlap >= 1
    /\ Len(chunks) >= 3
    /\ chunks[1].start_word + chunk_size <= Len(words)
    /\ chunks[2].start_word + chunk_size > Len(words)

\* C6: a call with W <= V ends with InvalidConfigError and no chunk.
RejectsBadConfig ==
    (Finished /\ chunk_size <= overlap) =>
        /\ pc = "raised"
        /\ raised = "InvalidConfigError"
        /\ chunks = <<>>

\* C7: a call on a text without words, with 0 <= V < W, returns an empty list.
EmptyTextReturnsEmpty ==
    (Finished /\ ValidConfig /\ Len(words) = 0) =>
        /\ pc = "returned"
        /\ raised = "none"
        /\ chunks = <<>>

(***************************************************************************)
(* Properties of search and of the save/load round trip (under Spec).      *)
(***************************************************************************)
Served == ~retriever.is_none
StoredN == retriever.index.ntotal
SearchRan == out.status # "idle" /\ out.error # "OpenAIError"
SameChunk(entry, chunk) == \A key \in DOMAIN chunk : entry[key] = chunk[key]

\* C1 as stated: every result of search(query, k), for every k >= 1, comes
\* from a row r with 0 <= r < len(C) returned by the index, and the chunk in
\* that result is C[r].
OrdinalAlignment ==
    (Served /\ out.status = "returned") =>
        \A j \in 1..Len(out.results) :
            /\ 0 <= out.I[j]
            /\ out.I[j] < Len(all_chunks)
            /\ SameChunk(out.results[j], all_chunks[out.I[j] + 1])

\* C2 as stated: when k exceeds the number N of stored vectors, search returns
\* without raising exactly the N stored rows, each once: fewer than k results.
SearchBeyondStoredReturnsAll ==
    (Served /\ SearchRan /\ out.k > StoredN) =>
        /\ out.status = "returned"
        /\ Len(out.results) = StoredN
        /\ Len(out.results) < out.k
        /\ \A a, b \in 1..Len(out.results) : a # b => out.I[a] # out.I[b]

\* C8: for k <= N the rows returned are k distinct stored rows, each reported
\* with its squared Euclidean distance to the query; no stored row outside the
\* result is strictly closer than a returned one; the results are listed with
\* non-decreasing distance.
SearchExactOrdered ==
    (Served /\ out.status = "returned" /\ out.k <= StoredN) =>
        LET q == out.query_embedding
            rows == {out.I[j] + 1 : j \in 1..out.k}
        IN  /\ rows \subseteq 1..index.ntotal
            /\ Cardinality(rows) = out.k
            /\ \A j \in 1..out.k :
                   /\ out.D[j] = L2Sqr(index.xb[out.I[j] + 1], q)
                   /\ out.results[j].distance = out.D[j]
            /\ \A s \in (1..index.ntotal) \ rows : \A j \in 1..out.k :
                   L2Sqr(index.xb[s], q) >= out.D[j]
            /\ \A j \in 1..(out.k - 1) :
                   out.results[j].distance <= out.results[j + 1].distance

\* C8 witness: two of three rows returned, at different distances, the row
\* left out strictly farther than both.
SearchExactOrderedWitness ==
    /\ Served
    /\ out.status = "returned"
    /\ out.k = 2
    /\ StoredN = 3
    /\ out.D[1] < out.D[2]
    /\ \E s \in 1..3 : L2Sqr(index.xb[s], out.query_embedding) > out.D[2]

\* C9: for 1 <= k <= N search returns exactly k entries; the entry at list
\* position j has rank j, the distance of slot j, and the fields of chunk
\* C[I[j]] unchanged, and no other key.
SearchRanks ==
    (Served /\ SearchRan /\ out.k <= StoredN) =>
        /\ out.status = "returned"
        /\ Len(out.results) = out.k
        /\ \A j \in 1..out.k :
               LET e == out.results[j]
                   c == all_chunks[out.I[j] + 1]
               IN  /\ e.rank = j
                   /\ e.distance = out.D[j]
                   /\ DOMAIN e = DOMAIN c \cup {"distance", "rank"}
                   /\ SameChunk(e, c)

\* C9 witness: fewer entries asked for than stored, more than one returned.
SearchRanksWitness ==
    /\ Served
    /\ out.status = "returned"
    /\ out.k >= 2
    /\ out.k < StoredN
    /\ out.results[out.k].rank = out.k

\* C10: the retriever built from load_index after save_index answers every
\* search (every query vector, every k) exactly as a retriever over the index
\* and chunk sequence that were saved: same rows, distances, chunks, or the
\* same exception.
RoundTrip ==
    Served =>
        \A q \in Vec : \A k \in 1..MaxK :
            SearchOutcome(retriever, q, k) =
                SearchOutcome([is_none |-> FALSE, index |-> index, chunks |-> all_chunks], q, k)

\* C10 witness: a loaded retriever over at least two different vectors and
\* chunks of two files has answered a search.
RoundTripWitness ==
    /\ Served
    /\ out.status = "returned"
    /\ StoredN >= 3
    /\ index.xb[1] # index.xb[2]
    /\ retriever.chunks[1].source # retriever.chunks[3].source

\* C11 as stated: load_index fails with IndexNotFoundError when an artifact
\* is missing and with IndexCorruptError when the row counts differ, and never
\* returns a pair whose row counts disagree.
LoadErrorTaxonomy ==
    /\ load_error # "none" => load_error \in {"IndexNotFoundError", "IndexCorruptError"}
    /\ Served => Len(retriever.chunks) = retriever.index.ntotal

(***************************************************************************)
(* Properties of create_embeddings_batch and of the build (SpecBatch).     *)
(***************************************************************************)
BatchN == Len(batch.texts)
\* The texts of the j-th batch (j from 1) of a list cut into batches of size B.
ExpectedBatch(j) ==
    SubSeq(batch.texts, (j - 1) * batch.size + 1, Min(j * batch.size, BatchN))

\* All texts received by the service, and all vectors it returned, in order.
RECURSIVE Received(_)
Received(calls) == IF calls = <<>> THEN <<>> ELSE calls[1].input \o Received(Tail(calls))
RECURSIVE Returned(_)
Returned(calls) == IF calls = <<>> THEN <<>> ELSE calls[1].output \o Returned(Tail(calls))

\* C12 as stated: embedding an empty text list, building the index from the
\* result and saving it completes without raising.
ZeroVectorBuildCompletes ==
    (batch.status # "idle" /\ BatchN = 0) => build_pc # "raised"

\* C13: after the build sequence the index holds len(chunks) vectors, row i is
\* the vector the service returned for chunks[i].text, and the two saved
\* artifacts hold the same rows and chunks in the same order.
BuildAlignment ==
    build_pc = "saved" =>
        /\ index.ntotal = Len(all_chunks)
        /\ Len(Received(batch.calls)) = Len(all_chunks)
        /\ \A r \in 1..Len(all_chunks) :
               /\ Received(batch.calls)[r] = all_chunks[r].text
               /\ index.xb[r] = Returned(batch.calls)[r]
               /\ ReadIndex(disk.index_path.data).xb[r] = Returned(batch.calls)[r]
               /\ PickleLoad(disk.chunks_path.data)[r] = all_chunks[r]

\* C13 witness: a saved build of three chunks embedded in more than one call,
\* with different vectors in different calls.
BuildAlignmentWitness ==
    /\ build_pc = "saved"
    /\ Len(all_chunks) = 3
    /\ Len(batch.calls) >= 2
    /\ batch.calls[1].output[1] # batch.calls[2].output[1]

\* C14: a returning call on n texts with batch size B made exactly ceil(n / B)
\* remote calls, the j-th carrying texts [j*B, min((j+1)*B, n)) in order, and
\* returns n vectors, vector i being the one the service returned for text i.
BatchCallsExact ==
    batch.status = "returned" =>
        /\ Len(batch.calls) = CeilDiv(BatchN, batch.size)
        /\ \A j \in 1..Len(batch.calls) : batch.calls[j].input = ExpectedBatch(j)
        /\ Len(embeddings.rows) = BatchN
        /\ \A r \in 1..BatchN :
               embeddings.rows[r] =
                   batch.calls[((r - 1) \div batch.size) + 1].output[((r - 1) % batch.size) + 1]

\* C14 witness: three texts in batches of two, the last batch short.
BatchCallsExactWitness ==
    /\ batch.status = "returned"
    /\ BatchN = 3
    /\ batch.size = 2
    /\ Len(batch.calls[2].input) = 1
    /\ embeddings.rows[1] # embeddings.rows[3]

\* C15: a failed call is the last call the operation makes: every batch is
\* sent at most once and in order, the operation ends by raising, it returns
\* no array, and the build stops.
BatchAbortsOnFailure ==
    /\ batch.status # "idle" =>
           \A j \in 1..Len(batch.calls) :
               /\ batch.calls[j].input = ExpectedBatch(j)
               /\ ~batch.calls[j].ok =>
                      /\ j = Len(batch.calls)
                      /\ batch.status = "raised"
                      /\ build_pc = "raised"
    /\ batch.status = "raised" => ~batch.calls[Len(batch.calls)].ok

\* C15 witness: the second of three batches failed after the first succeeded.
BatchAbortsOnFailureWitness ==
    /\ batch.status = "raised"
    /\ Len(batch.calls) = 2
    /\ batch.calls[1].ok
    /\ CeilDiv(BatchN, batch.size) = 3

(***************************************************************************)
(* Properties of ask and of the /ask handler (SpecAsk).                    *)
(***************************************************************************)
Asked == req.pc # "idle"
GenerationCalled == Asked /\ req.call.sent

\* Reading a prompt back: the position of the first tok at or after p.
RECURSIVE FindFrom(_, _, _)
FindFrom(s, p, tok) ==
    IF p > Len(s) THEN p
    ELSE IF s[p] = tok THEN p ELSE FindFrom(s, p + 1, tok)

DigitValue(c) == CHOOSE d \in 0..9 : Digits[d + 1] = c
RECURSIVE Number(_)
Number(ds) ==
    IF Len(ds) = 1 THEN DigitValue(ds[1])
    ELSE 10 * Number(SubSeq(ds, 1, Len(ds) - 1)) + DigitValue(ds[Len(ds)])

\* The extract blocks found in s from position p on, and where they end.
RECURSIVE ReadBlocks(_, _)
ReadBlocks(s, p) ==
    IF p > Len(s) \/ s[p] # "[Extrait "
    THEN [blocks |-> <<>>, next |-> p]
    ELSE LET src   == FindFrom(s, p, " - Source: ")
             close == FindFrom(s, src, "]\n")
             stop  == FindFrom(s, close, "\n\n")
             rest  == ReadBlocks(s, stop + 1)
         IN  [blocks |-> <<[number |-> Number(SubSeq(s, p + 1, src - 1)),
                            source |-> SubSeq(s, src + 1, close - 1),
                            text   |-> SubSeq(s, close + 1, stop - 1)]>> \o rest.blocks,
              next   |-> rest.next]

\* C16: the user prompt sent to the model holds one block per context chunk,
\* in rank order, block i carrying extract number i, that chunk's source and
\* that chunk's text, and the question comes after the last block.
ContextAssembly ==
    GenerationCalled =>
        LET user == req.call.messages[2].content
            read == ReadBlocks(user, 2)
        IN  /\ user[1] = "Contexte (extraits de documents juridiques) :\n\n"
            /\ Len(read.blocks) = Len(req.relevant_chunks)
            /\ \A j \in 1..Len(read.blocks) :
                   /\ read.blocks[j].number = j
                   /\ read.blocks[j].source = <<req.relevant_chunks[j].source>>
                   /\ read.blocks[j].text = req.relevant_chunks[j].text
            /\ SubSeq(user, read.next, Len(user)) =
                   <<"\n\nQuestion : ", req.query,
                     "\n\nRéponds de manière claire et cite tes sources.">>

\* C16 witness: a prompt built from three chunks of two different files.
ContextAssemblyWitness ==
    /\ GenerationCalled
    /\ Len(req.relevant_chunks) = 3
    /\ req.relevant_chunks[1].source # req.relevant_chunks[2].source
    /\ req.relevant_chunks[1].text # req.relevant_chunks[3].text

\* C17: the record generate_answer returns has the query and model of the
\* call, one source per context chunk in rank order, the number of context
\* chunks, and the three token counts the remote model reported.
AnswerRecordFields ==
    (Asked /\ req.completion.present) =>
        /\ req.result.query = req.query
        /\ req.result.model = req.model
        /\ req.call.model = req.model
        /\ req.result.answer = req.completion.content
        /\ Len(req.result.sources) = Len(req.relevant_chunks)
        /\ \A j \in 1..Len(req.relevant_chunks) :
               req.result.sources[j] = req.relevant_chunks[j].source
        /\ req.result.num_chunks_used = Len(req.relevant_chunks)
        /\ req.result.tokens_used.prompt = req.completion.usage.prompt_tokens
        /\ req.result.tokens_used.completion = req.completion.usage.completion_tokens
        /\ req.result.tokens_used.total = req.completion.usage.total_tokens

\* C17 witness: a record over two chunks of different files.
AnswerRecordFieldsWitness ==
    /\ Asked
    /\ req.completion.present
    /\ Len(req.relevant_chunks) = 2
    /\ req.result.sources[1] # req.result.sources[2]
    /\ req.result.tokens_used.prompt # req.result.tokens_used.completion

\* C18: the calls of a request are a prefix of embedding, search, generation
\* (so each is made at most once, in that order), and no generation call is
\* made when the embedding call or the search failed.
CallOrder ==
    Asked =>
        /\ Len(req.log) <= 3
        /\ \A j \in 1..Len(req.log) : req.log[j] = <<"embed", "search", "generate">>[j]
        /\ req.failed_at \in {"embed", "search"} =>
               /\ ~req.call.sent
               /\ \A j \in 1..Len(req.log) : req.log[j] # "generate"

\* C18 witness: a request answered after all three calls.
CallOrderWitness ==
    /\ Asked
    /\ req.pc = "done"
    /\ req.log = <<"embed", "search", "generate">>
    /\ req.response.status_code = 200

\* C19: when the embedding or the generation call failed, it was the last
\* call of the request and was made once, ask produced no result, and the
\* HTTP response is an error carrying neither answer nor sources.
NoPartialResult ==
    (Asked /\ req.failed_at \in {"embed", "generate"}) =>
        /\ req.log[Len(req.log)] = req.failed_at
        /\ \A j, m \in 1..Len(req.log) : req.log[j] = req.log[m] => j = m
        /\ req.result = NoResult
        /\ req.pc \in {"failed", "done"}
        /\ req.pc = "done" =>
               /\ req.response.status_code = 500
               /\ DOMAIN req.response = {"status_code", "detail"}

\* C19 witness: the generation call failed after chunks had been retrieved.
NoPartialResultWitness ==
    /\ Asked
    /\ req.pc = "done"
    /\ req.failed_at = "generate"
    /\ Len(req.relevant_chunks) >= 2
    /\ req.response.status_code = 500

\* C20 as stated: a failed embedding call surfaces as EmbeddingServiceError
\* and a failed generation call as GenerationError.
ErrorTaxonomy ==
    Asked =>
        /\ req.failed_at = "embed" => req.error = "EmbeddingServiceError"
        /\ req.failed_at = "generate" => req.error = "GenerationError"

(***************************************************************************)
(* Properties of clean_text (SpecClean).                                   *)
(***************************************************************************)
Cleaned == clean.pc \in {"returned", "twice"}

ChunkTerminates == <>(pc \in {"returned", "raised"})

\* C26 witness: calls with chunk_size <= overlap that ended, and a call with
\* several iterations that returned.
ChunkTerminatesWitness ==
    /\ pc = "raised"
    /\ chunk_size < overlap
    /\ Len(words) = 3
    /\ raised = "ZeroDivisionError"

(***************************************************************************)
(* estimate_cost as the /ask handler calls it (SpecAsk).                   *)
(***************************************************************************)
Answered == Asked /\ req.pc = "done" /\ req.response.status_code = 200
ListedModels == {"gpt-4o-mini", "gpt-3.5-turbo", "gpt-4"}

\* C24: estimate_cost returns for every model name; for a name outside the
\* price table the result is the one of gpt-4o-mini and names gpt-4o-mini;
\* the token counts and the model name it was given are unchanged after the
\* call, and calling it again on them gives the same result.
CostFallback ==
    Answered =>
        LET body == req.response.body
            cost == body.estimated_cost
        IN  /\ cost.model = IF req.model \in ListedModels THEN req.model ELSE "gpt-4o-mini"
            /\ req.model \notin ListedModels =>
                   cost = EstimateCost(body.tokens_used, "gpt-4o-mini")
            /\ body.model = req.model
            /\ body.tokens_used = [prompt     |-> req.completion.usage.prompt_tokens,
                                   completion |-> req.completion.usage.completion_tokens,
                                   total      |-> req.completion.usage.total_tokens]
            /\ cost = EstimateCost(body.tokens_used, body.model)

\* C24 witness: a request for an unlisted model, costed at gpt-4o-mini's
\* prices (1000 * 0.15 + 200 * 0.60 = 270 millionths of a dollar).
CostFallbackWitness ==
    /\ Answered
    /\ req.model = "gpt-4o"
    /\ req.response.body.estimated_cost.model = "gpt-4o-mini"
    /\ req.response.body.estimated_cost.total_cost_usd = 270

(***************************************************************************)
(* Properties of process_all_pdfs (SpecProc).                              *)
(***************************************************************************)
Emitted == proc.all_chunks
\* The rows of the combined sequence that carry source f, in order.
RECURSIVE RowsOf(_, _)
RowsOf(cs, f) ==
    IF cs = <<>> THEN <<>>
    ELSE IF cs[1].source = f THEN <<cs[1]>> \o RowsOf(Tail(cs), f)
         ELSE RowsOf(Tail(cs), f)

\* C29: in the sequence process_all_pdfs returns, no chunk of a .txt file
\* precedes a chunk of a .pdf file; the chunks of one file are contiguous,
\* are the chunks chunk_text made of that file in the order it made them,
\* carry the file's name as source and chunk_id 0, 1, ... within the file;
\* (source, chunk_id) is unique; and chunk_id is the row position exactly
\* for the chunks of the first file.
ProcLayout ==
    proc.pc = "returned" =>
        /\ \A r, q \in 1..Len(Emitted) :
               r < q => ~(EndsWith(Emitted[r].source, ".txt")
                          /\ EndsWith(Emitted[q].source, ".pdf"))
        /\ \A r, q \in 1..Len(Emitted) :
               (r < q /\ Emitted[r].source = Emitted[q].source) =>
                   \A m \in r..q : Emitted[m].source = Emitted[r].source
        /\ \A r \in 1..Len(Emitted) :
               /\ Emitted[r].source \in ListedNames(proc.listing)
               /\ EndsWith(Emitted[r].source, ".pdf") \/ EndsWith(Emitted[r].source, ".txt")
               /\ Emitted[r].chunk_id =
                      Cardinality({m \in 1..(r - 1) : Emitted[m].source = Emitted[r].source})
               /\ (Emitted[r].chunk_id = r - 1) <=> (Emitted[r].source = Emitted[1].source)
        /\ \A r, q \in 1..Len(Emitted) :
               (Emitted[r].source = Emitted[q].source
                   /\ Emitted[r].chunk_id = Emitted[q].chunk_id) => r = q
        /\ \A f \in ListedNames(proc.listing) :
               RowsOf(Emitted, f) =
                   IF proc.exists /\ (EndsWith(f, ".pdf") \/ EndsWith(f, ".txt"))
                   THEN TagSource(ChunkText(CleanText(proc.content[f].text),
                                            proc.chunk_size, proc.overlap), f)
                   ELSE <<>>

\* C29 witness: a directory listed with the .txt file first, two PDFs and
\* one TXT, at least six chunks in all.
ProcLayoutWitness ==
    /\ proc.pc = "returned"
    /\ proc.listing = <<"b.txt", "c.pdf", "a.pdf">>
    /\ Len(Emitted) >= 6
    /\ Emitted[1].source = "c.pdf"
    /\ Emitted[Len(Emitted)].source = "b.txt"
    /\ Emitted[Len(Emitted)].chunk_id >= 1

(***************************************************************************)
(* Properties of save_index and of a start on its artifacts (SpecSave).    *)
(***************************************************************************)
NewVectorArtifact == SavedFile(WriteIndex(index))
StartupStep == api.pc = "import" /\ api'.pc = "started"

\* C30: save_index completes the vector artifact before it touches the chunk
\* artifact; a save that stops between the two writes leaves the new vector
\* artifact beside the chunk artifact that was there before (or none), and
\* nothing later undoes it; index_exists returns true exactly when both
\* files exist; and a start on the new vector artifact and an old chunk
\* artifact loads both without error, whatever their row counts.
SaveNotAtomic ==
    [][/\ disk'.chunks_path # disk.chunks_path =>
              /\ build_pc \in {"index_written", "chunks_open"}
              /\ disk.index_path = NewVectorArtifact
       /\ (build_pc = "index_written" /\ build_pc' = "failed_between") =>
              /\ disk' = disk
              /\ disk.index_path = NewVectorArtifact
       /\ build_pc = "failed_between" => (disk' = disk /\ build_pc' = build_pc)
       /\ (StartupStep /\ api'.index_exists_called) =>
              api'.index_exists = (disk.index_path.present /\ disk.chunks_path.present)
       /\ (StartupStep /\ api.api_key /\ build_pc = "failed_between"
               /\ disk.chunks_path.present) =>
              /\ api'.startup_error = "None"
              /\ ~retriever'.is_none
              /\ retriever'.index.ntotal = Len(all_chunks)
              /\ retriever'.chunks = PickleLoad(disk.chunks_path.data)
      ]_vars

\* C30 witness: the API started after a save stopped between its writes and
\* holds an index and a chunk list of different lengths.
SaveNotAtomicWitness ==
    /\ build_pc = "failed_between"
    /\ api.pc = "started"
    /\ ~retriever.is_none
    /\ retriever.index.ntotal = Len(all_chunks)
    /\ Len(retriever.chunks) # retriever.index.ntotal

(***************************************************************************)
(* Properties of the API process (SpecApi).                                *)
(***************************************************************************)
Loaded == api.pc = "started" /\ ~retriever.is_none
GuardedEndpoints == AskEndpoints \cup {"/stats"}
HasChunks(c) == "relevant_chunks" \in DOMAIN reqs[c] /\ reqs[c].pc \notin {"received", "embedded"}
HasResult(c) == "completion" \in DOMAIN reqs[c] /\ reqs[c].completion.present

\* C21: whatever requests run and however they interleave, the retriever
\* holds the index and the chunk list exactly as loaded, every stored chunk
\* has its five keys only, and distance and rank exist only in the lists the
\* requests hold.
ReadOnlyStore ==
    Loaded =>
        /\ retriever.index = ReadIndex(disk.index_path.data)
        /\ retriever.chunks = PickleLoad(disk.chunks_path.data)
        /\ \A r \in 1..Len(retriever.chunks) :
               DOMAIN retriever.chunks[r] =
                   {"text", "chunk_id", "start_word", "end_word", "source"}
        /\ \A c \in ApiClients :
               HasChunks(c) =>
                   \A j \in 1..Len(reqs[c].relevant_chunks) :
                       /\ DOMAIN reqs[c].relevant_chunks[j] =
                              {"text", "chunk_id", "start_word", "end_word", "source",
                               "distance", "rank"}
                       /\ reqs[c].relevant_chunks[j].rank = j

\* C21 witness: two requests in flight at once, both past their search, with
\* different query vectors and a chunk in common at different distances.
ReadOnlyStoreWitness ==
    /\ Loaded
    /\ reqs["c1"].pc = "searched"
    /\ reqs["c2"].pc = "searched"
    /\ reqs["c1"].query_embedding # reqs["c2"].query_embedding
    /\ \E j \in 1..Len(reqs["c1"].relevant_chunks), m \in 1..Len(reqs["c2"].relevant_chunks) :
           /\ reqs["c1"].relevant_chunks[j].text = reqs["c2"].relevant_chunks[m].text
           /\ reqs["c1"].relevant_chunks[j].source = reqs["c2"].relevant_chunks[m].source
           /\ reqs["c1"].relevant_chunks[j].chunk_id = reqs["c2"].relevant_chunks[m].chunk_id
           /\ reqs["c1"].relevant_chunks[j].distance # reqs["c2"].relevant_chunks[m].distance

\* C22: two requests with the same arguments that received the same query
\* vector retrieved the same chunks, and if they also received the same
\* completion they have the same Answer Record, whatever each client asked
\* before and whatever the other requests did meanwhile.
Stateless ==
    \A c, d \in ApiClients :
        (/\ HasChunks(c) /\ HasChunks(d)
         /\ reqs[c].pc # "failed" /\ reqs[d].pc # "failed"
         /\ reqs[c].failed_at \notin {"embed", "search"}
         /\ reqs[d].failed_at \notin {"embed", "search"}
         /\ reqs[c].query = reqs[d].query
         /\ reqs[c].k = reqs[d].k
         /\ reqs[c].model = reqs[d].model
         /\ reqs[c].query_embedding = reqs[d].query_embedding) =>
            /\ reqs[c].relevant_chunks = reqs[d].relevant_chunks
            /\ (HasResult(c) /\ HasResult(d)
                    /\ reqs[c].completion = reqs[d].completion) =>
                   /\ reqs[c].result = reqs[d].result
                   /\ reqs[c].call = reqs[d].call

\* C22 witness: the same question answered for two clients through the two
\* endpoints, with the same record.
StatelessWitness ==
    /\ HasResult("c1")
    /\ HasResult("c2")
    /\ reqs["c1"].endpoint = "/ask"
    /\ reqs["c2"].endpoint = "/ask_post"
    /\ reqs["c1"].k = 2
    /\ reqs["c2"].k = 2
    /\ reqs["c1"].query_embedding = reqs["c2"].query_embedding
    /\ reqs["c1"].result = reqs["c2"].result
    /\ reqs["c1"].pc = "done"
    /\ reqs["c2"].pc = "generated"

\* C23: while the retriever is None no request is past its entry test, and
\* every /ask, /ask_post and /stats request served got 503 with only a
\* detail, having called neither the retriever nor a remote service.
RefusedWhileUnloaded ==
    retriever.is_none =>
        \A c \in ApiClients :
            /\ reqs[c].pc \in {"idle", "done"}
            /\ (reqs[c].pc = "done" /\ reqs[c].endpoint \in GuardedEndpoints) =>
                   /\ reqs[c].response.status_code = 503
                   /\ DOMAIN reqs[c].response = {"status_code", "detail"}
                   /\ reqs[c].log = <<>>

\* C23 witness: after a start that failed, /ask_post and /stats both refused
\* with the startup message.
RefusedWhileUnloadedWitness ==
    /\ retriever.is_none
    /\ api.pc = "started"
    /\ reqs["c1"].pc = "done"
    /\ reqs["c1"].endpoint = "/ask_post"
    /\ reqs["c2"].pc = "done"
    /\ reqs["c2"].endpoint = "/stats"
    /\ reqs["c1"].response.detail = api.startup_error
    /\ reqs["c2"].response.status_code = 503

HealthStep(c) == reqs'[c] # reqs[c] /\ reqs'[c].endpoint = "/health"
\* C27: when startup_event has run, either the retriever is set and
\* startup_error is None, or the retriever is None and startup_error is a
\* non-empty message; a /health served then answers ok with index_loaded in
\* the first case and warning without it in the second; and a /health that
\* answers error was served before startup_event ran.
StartupOutcome ==
    [][/\ api'.pc = "started" =>
              \/ ~retriever'.is_none /\ api'.startup_error = "None"
              \/ retriever'.is_none /\ api'.startup_error \notin {"None", ""}
       /\ \A c \in ApiClients :
              HealthStep(c) =>
                  LET body == reqs'[c].response.body
                  IN  /\ api.pc = "started" =>
                             IF retriever.is_none
                             THEN /\ body.status = "warning"
                                  /\ body.index_loaded = FALSE
                                  /\ body.message = api.startup_error
                             ELSE /\ body.status = "ok"
                                  /\ body.index_loaded = TRUE
                      /\ body.status = "error" => api.pc = "import"
      ]_vars

\* C27 witness: a start that failed while loading (truncated chunk file) and
\* a /health answered warning, beside a /health answered error before.
StartupOutcomeWitness ==
    /\ api.pc = "started"
    /\ retriever.is_none
    /\ api.startup_error = "Erreur au démarrage : Ran out of input"
    /\ reqs["c1"].endpoint = "/health"
    /\ reqs["c1"].response.body.status = "warning"
    /\ reqs["c2"].endpoint = "/health"
    /\ reqs["c2"].response.body.status = "error"

ServedStep(c) ==
    /\ reqs'[c] # reqs[c]
    /\ reqs'[c].pc = "done"
    /\ reqs'[c].endpoint \in GuardedEndpoints
\* C28: only startup_event assigns the globals: every other step leaves
\* retriever, embedding_manager and startup_error as they are, and once
\* startup_event has run a /ask, /ask_post or /stats request gets 503
\* exactly when the start failed.
LoadStateFixed ==
    [][/\ api'.pc = api.pc => (api' = api /\ retriever' = retriever)
       /\ api.pc = "started" => api'.pc = "started"
       /\ \A c \in ApiClients :
              (api.pc = "started" /\ ServedStep(c)) =>
                  (reqs'[c].response.status_code = 503 <=> retriever.is_none)
      ]_vars

\* C28 witness: after a good start one request failed with 500 and one
\* /stats was answered; none got 503.
LoadStateFixedWitness ==
    /\ Loaded
    /\ reqs["c1"].pc = "done"
    /\ reqs["c1"].endpoint = "/ask"
    /\ reqs["c1"].response.status_code = 500
    /\ reqs["c2"].pc = "done"
    /\ reqs["c2"].endpoint = "/stats"
    /\ reqs["c2"].response.status_code = 200

====
